---- MODULE Spec2Model ----
(***************************************************************************)
(* Model of the quantity store and derived-quantity computation of         *)
(* vaplac (src/vaplac/base.py, class DataTaker) and of the tagged          *)
(* quantity it stores (src/vaplac/vaplac/xpint.py), of the moving mean    *)
(* (xpint.py, src/vaplac/movmean.py), of the checks of                     *)
(* src/vaplac/vaplac/sauroneye.py and of explore (src/explore.py).         *)
(*                                                                         *)
(* Conventions.                                                            *)
(*  - A magnitude is a sequence of integers, one per sample (row of the    *)
(*    data file).  The input values are chosen so that every conversion    *)
(*    and product of the code is an exact integer.                         *)
(*  - A mass flow rate in kg/s is carried in thousandths (0.1 kg/s = 100). *)
(*  - A magnitude in the units 'ratio' is carried in millionths            *)
(*    (0.5 = 500000).                                                      *)
(*  - A Quantity object is a record [mag, units, prop, label, obj]; obj    *)
(*    tells objects of one key apart: it counts the assignments made to    *)
(*    that key of DataTaker.quantities.                                    *)
(*  - The arrays given to movmean hold integers; their sums are exact in   *)
(*    a double and are carried as integers, and the quotient movsum / n    *)
(*    is carried as the fraction [num, den].                               *)
(***************************************************************************)
EXTENDS Integers, Sequences, FiniteSets, TLC

\* Number of samples (rows) of a data file.
NSamples == 2
\* Number of DataTaker.get calls made by a client on one DataTaker.
MaxCalls == 2
\* Length of the array magnitude of a Quantity taken on its own.
QLen == 3
\* Bits of the significand of a floating-point magnitude (a double has 53).
MantissaBits == 8
\* Length of the longest array given to movmean.
MovLen == 4
\* Largest number of samples of one validated file with wr below ws.
MaxBelow == 6
\* Length of the longest frequency series checked for cycling.
CycLen == 17
\* Largest number of arguments given to explore.
ExploreLen == 3

Samples == 1..NSamples

(***************************************************************************)
(* The property-lookup service (CoolProp), R410a.  Two pressure levels and *)
(* temperatures on both sides of saturation at each pressure.              *)
(***************************************************************************)
Pressures == {800000, 2500000}

\* Saturation temperature (K) at pressure p (Pa).
Tsat(p) == IF p = 800000 THEN 273 ELSE 314

\* PhaseSI('P', p, 'T', T, 'R410a'): the label of the phase.
PhaseSI(p, T) == IF T > Tsat(p) THEN "gas" ELSE "liquid"

\* PropsSI('H', 'P', p, 'Q', Q, 'R410a'): saturation enthalpy (J/kg).
PropsSI_HPQ(p, Q) ==
    CASE p = 800000 /\ Q = 0 -> 200000
      [] p = 800000 /\ Q = 1 -> 410000
      [] p = 2500000 /\ Q = 0 -> 250000
      [] p = 2500000 /\ Q = 1 -> 420000

\* PropsSI('H', 'P', p, 'T', T, 'R410a'): enthalpy (J/kg) of a single state.
PropsSI_HPT(p, T) ==
    CASE p = 800000 /\ T = 263 -> 190000
      [] p = 800000 /\ T = 293 -> 430000
      [] p = 800000 /\ T = 353 -> 480000
      [] p = 2500000 /\ T = 263 -> 210000
      [] p = 2500000 /\ T = 293 -> 240000
      [] p = 2500000 /\ T = 353 -> 450000

(***************************************************************************)
(* Units and Quantity.to                                                   *)
(***************************************************************************)
\* Size of a unit in the base unit of its dimension.
UnitFactor(u) ==
    CASE u = "W" -> 1
      [] u = "kW" -> 1000
      [] u = "g/s" -> 1
      [] u = "kg/s" -> 1000
      [] u = "ratio" -> 1
      [] u = "g/kg" -> 1000
      [] u = "percent" -> 10000
      [] OTHER -> 1

\* pint's conversion of one magnitude from units u to units v.
Convert(x, u, v) == (x * UnitFactor(u)) \div UnitFactor(v)

\* _Quantity.to(other): a new object, converted magnitude, same prop/label.
To(q, other) ==
    [q EXCEPT !.mag = [i \in DOMAIN q.mag |-> Convert(q.mag[i], q.units, other)],
              !.units = other,
              !.obj = 0]

\* Q_(value, units=, prop=, label=): a new Quantity object.
Q_(value, units, prop, label) ==
    [mag |-> value, units |-> units, prop |-> prop, label |-> label, obj |-> 0]

(***************************************************************************)
(* DataTaker._heat                                                         *)
(***************************************************************************)
HeatKeys == {"Qcond", "Qev", "Pcomp", "Qloss_ev"}

\* exp_phase_in, exp_phase_out of a power key.
ExpPhases(power) ==
    CASE power = "Qcond" -> <<"gas", "liq">>
      [] power = "Qev" -> <<"liq", "gas">>
      [] power = "Pcomp" -> <<"gas", "gas">>
      [] power = "Qloss_ev" -> <<"gas", "gas">>

\* quality = {'liq': 0, 'gas': 1}
Quality(exp_phase) == IF exp_phase = "liq" THEN 0 ELSE 1

\* phase_in / phase_out: one PhaseSI label per sample.
Phases(p, T) == [i \in DOMAIN p |-> PhaseSI(p[i], T[i])]

\* hin / hout as first looked up: PropsSI('H', 'P', p, 'T', T).
RawEnthalpy(p, T) == [i \in DOMAIN p |-> PropsSI_HPT(p[i], T[i])]

\* `if not exp_phase in phase`: whether the saturation lookup is made.
SatLookupMade(p, T, exp_phase) ==
    ~ \E i \in DOMAIN p : Phases(p, T)[i] = exp_phase

\* hin / hout after the replacement step.
Enthalpy(p, T, exp_phase) ==
    IF SatLookupMade(p, T, exp_phase)
    THEN [i \in DOMAIN p |->
            IF Phases(p, T)[i] # exp_phase
            THEN PropsSI_HPQ(p[i], Quality(exp_phase))
            ELSE PropsSI_HPT(p[i], T[i])]
    ELSE RawEnthalpy(p, T)

HeatLabel(power) ==
    CASE power = "Qcond" -> "$\\dot{Q}_{cond}$"
      [] power = "Qev" -> "$\\dot{Q}_{ev}$"
      [] power = "Pcomp" -> "$P_{comp}$"
      [] power = "Qloss_ev" -> "$\\dot{Q}_{loss,ev}$"

HeatProp(power) ==
    IF power = "Pcomp" THEN "mechanical power" ELSE "heat transfer rate"

\* A sign that forgets the condenser convention.
HeatSign_NoFlip(power) == 1

\* (-1 if power == 'Qcond' else 1)
HeatSign(power) == IF power = "Qcond" THEN -1 ELSE 1

\* _heat(power, flow, pin, Tin, pout, Tout) on the stripped magnitudes:
\* flow in thousandths of kg/s, pressures in Pa, temperatures in K.
\* The result is in watts.
_heat(power, flow, pin, Tin, pout, Tout) ==
    LET hin == Enthalpy(pin, Tin, ExpPhases(power)[1])
        hout == Enthalpy(pout, Tout, ExpPhases(power)[2])
    IN Q_([i \in DOMAIN flow |->
             (flow[i] * (hout[i] - hin[i]) * HeatSign(power)) \div 1000],
          "W", HeatProp(power), HeatLabel(power))

\* pow_kW = self._heat(quantity, *heat_params).to('kW')
HeatKW(power, flow, pin, Tin, pout, Tout) ==
    To(_heat(power, flow, pin, Tin, pout, Tout), "kW")

\* The locals of _heat once the replacement step is over, with the result:
\* lookup_in / lookup_out tell whether PropsSI('H', 'P', ., 'Q', .) was called.
HeatRun(power, flow, pin, Tin, pout, Tout) ==
    [pow |-> HeatKW(power, flow, pin, Tin, pout, Tout),
     hin |-> Enthalpy(pin, Tin, ExpPhases(power)[1]),
     hout |-> Enthalpy(pout, Tout, ExpPhases(power)[2]),
     lookup_in |-> SatLookupMade(pin, Tin, ExpPhases(power)[1]),
     lookup_out |-> SatLookupMade(pout, Tout, ExpPhases(power)[2])]

FlowValues == {0, 100}
HeatTemps == {263, 353}

Batches(S) == [Samples -> S]

(***************************************************************************)
(* The DataTaker: raw_data, _name_converter, quantities                    *)
(***************************************************************************)
\* The marker 'UnderRange' of the frequency column.
UnderRange == -1

HumRatioKeys == {"ws", "wr"}
\* A cleaning class that misses the flow rate, which is then read as it is.
ToCleanKeys_FrequencyOnly == {"f"}
ToCleanKeys == {"f", "flowrt_r"}
DependantKeys == {"Qcond", "Qev", "Pcomp", "Pel", "Qloss_ev"}
\* The keys of the name conversion table that are read as they are.
DirectKeys == {"T1", "T2", "T4", "T6", "T7", "T9", "pin", "pout", "refdir",
               "Pa", "Pb", "Ts", "RHs", "Tr", "RHr"}
\* The rows of the name conversion table.
NconvKeys == DirectKeys \cup {"f", "flowrt_r"}

\* A fixed enumeration of the keys, from which the iteration orders of the
\* Python sets are taken ("fwd": this order, "rev": the reverse).
KeyOrder == <<"T1", "T2", "T4", "T6", "T7", "T9", "pin", "pout", "refdir",
              "Pa", "Pb", "f", "flowrt_r", "Qcond", "Qev", "Pcomp", "Pel",
              "Qloss_ev", "Tx", "Ts", "RHs", "Tr", "RHr", "ws", "wr">>
Orders == {"fwd", "rev"}

Reverse(sq) == [i \in 1..Len(sq) |-> sq[Len(sq) + 1 - i]]

\* The elements of the set S in the iteration order ord.
Iterate(S, ord) ==
    LET In(k) == k \in S
        fwd == SelectSeq(KeyOrder, In)
    IN IF ord = "fwd" THEN fwd ELSE Reverse(fwd)

Range(sq) == {sq[i] : i \in DOMAIN sq}

EmptyMap == [k \in {} |-> 0]

NconvProp(k) ==
    CASE k \in {"T1", "T2", "T4", "T6", "T7", "T9", "Ts", "Tr"} -> "temperature"
      [] k \in {"RHs", "RHr"} -> "relative humidity"
      [] k \in {"pin", "pout"} -> "pressure"
      [] k = "refdir" -> "flow direction"
      [] k \in {"Pa", "Pb"} -> "electrical power"
      [] k = "f" -> "frequency"
      [] k = "flowrt_r" -> "flow rate"

NconvUnits(k) ==
    CASE k \in {"T1", "T2", "T4", "T6", "T7", "T9", "Ts", "Tr"} -> "K"
      [] k \in {"RHs", "RHr"} -> "percent"
      [] k \in {"pin", "pout"} -> "Pa"
      [] k = "refdir" -> "dimensionless"
      [] k \in {"Pa", "Pb"} -> "W"
      [] k = "f" -> "Hz"
      [] k = "flowrt_r" -> "g/s"

\* A name conversion table: one row [units, properties, labels] per key;
\* the phase powers Pa and Pb are logged in the units uPa and uPb.
NameConverter(uPa, uPb) ==
    [k \in NconvKeys |->
        [units |-> CASE k = "Pa" -> uPa [] k = "Pb" -> uPb [] OTHER -> NconvUnits(k),
         properties |-> NconvProp(k),
         labels |-> k]]

\* A state of the DataTaker while a call runs: q is self.quantities, raw is
\* self.raw_data, log the arguments and locals of the _heat call made for
\* each power key, ret the value returned by the last get, single whether
\* that value is one Quantity (and not a generator), err the exception
\* raised ("none" while none is).
\* A failure that also empties the cache.
Raise_ClearsCache(s, e) == [s EXCEPT !.err = e, !.ret = <<>>, !.q = EmptyMap]

\* raise e (the exception leaves _build_quantities and get)
Raise(s, e) == [s EXCEPT !.err = e, !.ret = <<>>]

\* self.quantities[key] = quantity
Put(s, key, quantity) ==
    LET n == IF key \in DOMAIN s.q THEN s.q[key].obj + 1 ELSE 1
    IN [s EXCEPT !.q = (key :> [quantity EXCEPT !.obj = n]) @@ s.q]

RECURSIVE ReadAsIs(_, _, _)
\* for quantity in as_is: ... (ks lists as_is in the order of iteration)
ReadAsIs(s, nconv, ks) ==
    IF ks = <<>> \/ s.err # "none" THEN s
    ELSE LET quantity == Head(ks)
         IN IF quantity \notin DOMAIN nconv \/ quantity \notin DOMAIN s.raw
            THEN Raise(s, "KeyError")
            ELSE ReadAsIs(Put(s, quantity,
                              Q_(s.raw[quantity], nconv[quantity].units,
                                 nconv[quantity].properties,
                                 nconv[quantity].labels)),
                          nconv, Tail(ks))

\* f[f == 'UnderRange'] = 0, written through to the raw column.
ZeroUnderRange(f) == [i \in DOMAIN f |-> IF f[i] = UnderRange THEN 0 ELSE f[i]]

\* f = f.astype(float) / 2
Halve(f) == [i \in DOMAIN f |-> f[i] \div 2]

\* A halving made in place, which reaches the raw column too.
RawFrequencyLeft_Halved(fraw, f) == f

\* The raw column of f once lines 210-212 have run: line 211 wrote into it,
\* line 212 made a new array (fraw: the column after line 211, f: the array
\* of line 212).
RawFrequencyLeft(fraw, f) == fraw

\* A cleaning step that leaves the flow rate as logged.
ZeroFlow_Skipped(flowrt_r, f) == flowrt_r

\* flowrt_r[f == 0] = 0
ZeroFlow(flowrt_r, f) ==
    [i \in DOMAIN flowrt_r |-> IF f[i] = 0 THEN 0 ELSE flowrt_r[i]]

\* The elif branch of the cleaning step (lines 210-230).
CleanStep(s, nconv, to_clean) ==
    IF "f" \notin DOMAIN nconv \/ "f" \notin DOMAIN s.raw
    THEN Raise(s, "KeyError")
    ELSE
    LET fraw == ZeroUnderRange(s.raw["f"])
        f == Halve(fraw)
        s1 == [s EXCEPT !.raw["f"] = RawFrequencyLeft(fraw, f)]
        s2 == IF "f" \in to_clean
              THEN Put(s1, "f", Q_(f, nconv["f"].units, nconv["f"].properties,
                                   nconv["f"].labels))
              ELSE s1
    IN IF "flowrt_r" \notin to_clean THEN s2
       ELSE IF "flowrt_r" \notin DOMAIN nconv \/ "flowrt_r" \notin DOMAIN s.raw
       THEN Raise(s2, "KeyError")
       ELSE LET flowrt_r == ZeroFlow(s2.raw["flowrt_r"], f)
                s3 == [s2 EXCEPT !.raw["flowrt_r"] = flowrt_r]
            IN Put(s3, "flowrt_r",
                   Q_(flowrt_r, nconv["flowrt_r"].units,
                      nconv["flowrt_r"].properties, nconv["flowrt_r"].labels))

\* A majority test that counts the tie as fewer than half.
FewerThanHalfNonzero_Tie(ref_dir) ==
    2 * Cardinality({i \in DOMAIN ref_dir : ref_dir[i] # 0}) <= Len(ref_dir)

\* len(np.nonzero(ref_dir)[0]) < len(ref_dir) / 2
FewerThanHalfNonzero(ref_dir) ==
    2 * Cardinality({i \in DOMAIN ref_dir : ref_dir[i] # 0}) < Len(ref_dir)

\* ref_states: the keys of the inlet and outlet pressure and temperature.
RefStates(ref_dir) ==
    IF FewerThanHalfNonzero(ref_dir)
    THEN [quantity \in {"Qcond", "Qev", "Pcomp"} |->
            CASE quantity = "Qcond" -> <<"pout", "T4", "pout", "T6">>
              [] quantity = "Qev" -> <<"pout", "T6", "pin", "T9">>
              [] quantity = "Pcomp" -> <<"pin", "T1", "pout", "T2">>]
    ELSE [quantity \in {"Qcond", "Qev", "Pcomp", "Qloss_ev"} |->
            CASE quantity = "Qcond" -> <<"pout", "T9", "pout", "T7">>
              [] quantity = "Qev" -> <<"pout", "T7", "pin", "T4">>
              [] quantity = "Pcomp" -> <<"pin", "T1", "pout", "T2">>
              [] quantity = "Qloss_ev" -> <<"pin", "T4", "pin", "T1">>]

\* ureg.wraps(...): the magnitude of q in the given units; a flow in kg/s
\* is kept in thousandths.
Strip(q, units) ==
    IF units = "kg/s"
    THEN [i \in DOMAIN q.mag |-> Convert(q.mag[i] * 1000, q.units, units)]
    ELSE [i \in DOMAIN q.mag |-> Convert(q.mag[i], q.units, units)]

\* A sum of the bare magnitudes, whatever the units of b.
Add_Magnitudes(a, b) ==
    [mag |-> [i \in DOMAIN a.mag |-> a.mag[i] + b.mag[i]], units |-> a.units]

\* np.add(a, b): the sum in the units of a.
Add(a, b) ==
    [mag |-> [i \in DOMAIN a.mag |->
                a.mag[i] + Convert(b.mag[i], b.units, a.units)],
     units |-> a.units]

\* The cleaning step of _build_quantities (lines 206-230); the call
\* _build_quantities('flowrt_r', update=True) of line 208 runs this same
\* step for flowrt_r alone and nothing else.
CleanPart(s, nconv, to_clean, update) ==
    IF s.err # "none" THEN s
    ELSE IF ~update /\ "flowrt_r" \in to_clean
    THEN CleanStep(s, nconv, {"flowrt_r"})
    ELSE IF to_clean # {} THEN CleanStep(s, nconv, to_clean)
    ELSE s

\* A get that returns the quantities of the set of keys, in its order of
\* iteration.
Return_KeySet(s, quantities) ==
    IF s.err # "none" THEN s
    ELSE [s EXCEPT !.ret = [k \in 1..Len(Iterate(Range(quantities), "fwd")) |->
                              s.q[Iterate(Range(quantities), "fwd")[k]]],
                   !.single = (Len(quantities) = 1)]

\* The value returned by get (lines 301-305) once the keys are built.
Return(s, quantities) ==
    IF s.err # "none" THEN s
    ELSE IF Len(quantities) > 1
    THEN [s EXCEPT !.ret = [k \in 1..Len(quantities) |-> s.q[quantities[k]]],
                   !.single = FALSE]
    ELSE IF Len(quantities) = 1
    THEN [s EXCEPT !.ret = <<s.q[quantities[1]]>>, !.single = TRUE]
    ELSE Raise(s, "IndexError")

\* _build_quantities as get calls it from within _build_quantities itself:
\* update is True and the keys are measured ones (T*, p*, refdir, Pa, Pb,
\* flowrt_r), so that the humidity and dependant branches are not entered.
BuildMeasured(s, nconv, quantities, ord) ==
    LET to_clean == quantities \cap ToCleanKeys
        as_is == quantities \ (HumRatioKeys \cup ToCleanKeys \cup DependantKeys)
    IN ReadAsIs(CleanPart(s, nconv, to_clean, TRUE), nconv, Iterate(as_is, ord))

\* self.get(...) called from within _build_quantities.
GetMeasured(s, nconv, quantities, ord) ==
    Return(BuildMeasured(s, nconv, Range(quantities) \ DOMAIN s.q, ord),
           quantities)

\* The one element of a singleton set: Only({F(x) : x \in {e}}) is F(e)
\* with e evaluated once.
Only(S) == CHOOSE x \in S : TRUE

\* psychro('W', 'P', 101325, 'T', T, 'RH', RH): the humidity ratio of humid
\* air at T (K) and relative humidity RH (millionths), in millionths.
psychro(T, RH) ==
    [i \in DOMAIN T |->
        CASE T[i] = 293 /\ RH[i] = 500000 -> 7000
          [] T[i] = 293 /\ RH[i] = 1000000 -> 15000]

\* 'T' + w.strip('w') and 'RH' + w.strip('w')
HumTKey(w) == IF w = "ws" THEN "Ts" ELSE "Tr"
HumRHKey(w) == IF w = "ws" THEN "RHs" ELSE "RHr"

HumLabel(w) == IF w = "ws" THEN "$\\omega_{s}$" ELSE "$\\omega_{r}$"

\* Lines 198-204: T is a local, RH is in s.ret; the store of the ratio.
HumRatioStore(s, w, T) ==
    IF s.err # "none" THEN s
    ELSE Only({Put(s, w, To(Q_(psychro(T, RH), "ratio", "absolute humidity",
                               HumLabel(w)), "g/kg")) :
               RH \in {To(s.ret[1], "ratio").mag}})

\* Lines 197-198: the temperature is in s.ret; the humidity is fetched.
HumRatioInputs(s, nconv, w, ord) ==
    IF s.err # "none" THEN s
    ELSE Only({HumRatioStore(
                   GetMeasured(s, nconv, <<HumRHKey(w)>>, ord),
                   w, T) :
               T \in {To(s.ret[1], "K").mag}})

\* One turn of `for w in hum_ratios` (lines 196-204).
HumRatioStep(s, nconv, w, ord) ==
    HumRatioInputs(GetMeasured(s, nconv, <<HumTKey(w)>>, ord), nconv, w, ord)

RECURSIVE BuildHumRatios(_, _, _, _)
\* for w in hum_ratios: ..., ws listing the keys in the order of iteration.
BuildHumRatios(s, nconv, ws, ord) ==
    IF ws = <<>> \/ s.err # "none" THEN s
    ELSE BuildHumRatios(HumRatioStep(s, nconv, Head(ws), ord),
                        nconv, Tail(ws), ord)

\* Lines 249-251: the inputs are in s.ret; _heat, .to('kW') and the store.
DependantHeat(s, quantity, ref_states) ==
    IF s.err # "none" THEN s
    ELSE
    LET flow == Strip(s.ret[1], "kg/s")
        pin == Strip(s.ret[2], "Pa")
        Tin == Strip(s.ret[3], "K")
        pout == Strip(s.ret[4], "Pa")
        Tout == Strip(s.ret[5], "K")
    IN Only({[Put(s, quantity, run.pow) EXCEPT !.log =
                 (quantity :> [flow |-> flow, ref_states |-> ref_states,
                               hin |-> run.hin, hout |-> run.hout])
                 @@ s.log] :
             run \in {HeatRun(quantity, flow, pin, Tin, pout, Tout)}})

\* Lines 236-249: ref_dir is in s.ret; the states and the inputs of _heat.
DependantStates(s, nconv, quantity, ord) ==
    IF s.err # "none" THEN s
    ELSE IF quantity \notin DOMAIN RefStates(s.ret[1].mag)
    THEN Raise(s, "KeyError")
    ELSE Only({DependantHeat(
                   GetMeasured(s, nconv, <<"flowrt_r">> \o ref_states, ord),
                   quantity, ref_states) :
               ref_states \in {RefStates(s.ret[1].mag)[quantity]}})

\* One turn of `for quantity in dependant - {'Pel'}` (lines 232-251).
DependantStep(s, nconv, quantity, ord) ==
    DependantStates(GetMeasured(s, nconv, <<"refdir">>, ord),
                    nconv, quantity, ord)

RECURSIVE BuildDependant(_, _, _, _)
\* for quantity in dependant - {'Pel'}: ..., ks listing the keys in the
\* order of iteration.
BuildDependant(s, nconv, ks, ord) ==
    IF ks = <<>> \/ s.err # "none" THEN s
    ELSE BuildDependant(DependantStep(s, nconv, Head(ks), ord),
                        nconv, Tail(ks), ord)

\* Lines 254-258: Pa and Pb are in s.ret.
PelSum(s) ==
    IF s.err # "none" THEN s
    ELSE Only({Put(s, "Pel",
                   To(Q_(Pel.mag, Pel.units, "electrical power", "$P_{el}$"),
                      "kW")) :
               Pel \in {Add(s.ret[1], s.ret[2])}})

\* if 'Pel' in dependant: ... (lines 253-258)
BuildPel(s, nconv, dependant, ord) ==
    IF s.err # "none" \/ "Pel" \notin dependant THEN s
    ELSE PelSum(GetMeasured(s, nconv, <<"Pa", "Pb">>, ord))

\* DataTaker._build_quantities(*quantities, update=update); ord is the
\* order in which the sets of keys are iterated.
_build_quantities(s, nconv, quantities, update, ord) ==
    LET stored_quantities == IF ~update THEN DOMAIN s.q ELSE {}
        qs == quantities \ stored_quantities
        hum_ratios == qs \cap HumRatioKeys
        to_clean == qs \cap ToCleanKeys
        dependant == qs \cap DependantKeys
        as_is == qs \ (hum_ratios \cup to_clean \cup dependant)
    IN ReadAsIs(
           BuildPel(
               BuildDependant(
                   CleanPart(BuildHumRatios(s, nconv, Iterate(hum_ratios, ord),
                                            ord),
                             nconv, to_clean, update),
                   nconv, Iterate(dependant \ {"Pel"}, ord), ord),
               nconv, dependant, ord),
           nconv, Iterate(as_is, ord))

\* DataTaker.get(quantities), quantities being the keys of the split string.
\* A get that builds every requested key, cached or not.
get_RebuildsAll(s, nconv, quantities, ord) ==
    Return(_build_quantities(s, nconv, Range(quantities), TRUE, ord),
           quantities)

get(s, nconv, quantities, ord) ==
    Return(_build_quantities(s, nconv, Range(quantities) \ DOMAIN s.q, TRUE, ord),
           quantities)

(***************************************************************************)
(* Floating-point magnitudes: [m, e] is m * 2^e, with m = 0 or              *)
(* 2^(MantissaBits-1) <= m < 2^MantissaBits; results are rounded to the    *)
(* nearest, ties to even.                                                  *)
(***************************************************************************)
\* The number of bits of n, 0 < n < 2^30.
BitLength(n) == CHOOSE k \in 1..30 : 2^(k-1) <= n /\ n < 2^k

\* The float nearest to n * 2^e, n >= 0.
FRound(n, e) ==
    IF n = 0 THEN [m |-> 0, e |-> 0]
    ELSE LET sh == BitLength(n) - MantissaBits
         IN IF sh <= 0 THEN [m |-> n * 2^(-sh), e |-> e + sh]
            ELSE LET q == n \div 2^sh
                     r == n % 2^sh
                     half == 2^(sh-1)
                     q1 == IF r > half \/ (r = half /\ q % 2 = 1)
                           THEN q + 1 ELSE q
                 IN IF q1 = 2^MantissaBits
                    THEN [m |-> 2^(MantissaBits-1), e |-> e + sh + 1]
                    ELSE [m |-> q1, e |-> e + sh]

\* float(n)
Fl(n) == FRound(n, 0)

\* a * b
FMul(a, b) == FRound(a.m * b.m, a.e + b.e)

\* a / b, b # 0: the quotient to 2 * MantissaBits bits and a sticky bit.
FDiv(a, b) ==
    LET num == a.m * 2^(2 * MantissaBits)
        q == num \div b.m
        sticky == IF num % b.m = 0 THEN 0 ELSE 1
    IN FRound(2 * q + sticky, a.e - b.e - 2 * MantissaBits - 1)

\* a + b, of exponents a few bits apart.
FAdd(a, b) ==
    IF a.m = 0 THEN b
    ELSE IF b.m = 0 THEN a
    ELSE LET emin == IF a.e < b.e THEN a.e ELSE b.e
         IN FRound(a.m * 2^(a.e - emin) + b.m * 2^(b.e - emin), emin)

\* The factor pint multiplies a magnitude by to convert it from u to v.
ConversionFactor(u, v) == FDiv(Fl(UnitFactor(u)), Fl(UnitFactor(v)))

(***************************************************************************)
(* xpint._Quantity.  A value is [v, dtype, scalar]: v lists the elements   *)
(* (one for a scalar), dtype is "O" for an array of logged objects (an     *)
(* integer or the marker each) and "float" for floats.                     *)
(***************************************************************************)
None == "None"

\* _Quantity.__new__(cls, value, units, prop, label)
__new__(value, units, prop, label) ==
    [magnitude |-> value, units |-> units, _prop |-> prop, _label |-> label,
     _name |-> [prop |-> prop, label |-> label]]

\* A set_prop that leaves the _name dictionary as it was.
set_prop_AttributeOnly(q, prop) == [q EXCEPT !._prop = prop]

set_prop(q, prop) == [q EXCEPT !._prop = prop, !._name.prop = prop]

set_label(q, label) == [q EXCEPT !._label = label, !._name.label = label]

\* set_name(prop=None, label=None): `prop or self._prop`
set_name(q, prop, label) ==
    set_label(set_prop(q, IF prop # None THEN prop ELSE q._prop),
              IF label # None THEN label ELSE q._label)

\* The conversion made by pint (super().to): each element times the factor.
pint_to(q, other) ==
    [v |-> [i \in DOMAIN q.magnitude.v |->
               FMul(q.magnitude.v[i], ConversionFactor(q.units, other))],
     dtype |-> "float", scalar |-> q.magnitude.scalar]

\* The conversion of pint alone: a quantity without prop and label.
to_Untagged(q, other) ==
    IF other = None THEN __new__(q.magnitude, q.units, None, None)
    ELSE __new__(pint_to(q, other), other, None, None)

\* A conversion that returns the converted magnitude under the old units.
to_KeepsUnits(q, other) ==
    IF other = None THEN __new__(q.magnitude, q.units, q._prop, q._label)
    ELSE __new__(pint_to(q, other), q.units, q._prop, q._label)

\* _Quantity.to(other)
to(q, other) ==
    IF other = None THEN __new__(q.magnitude, q.units, q._prop, q._label)
    ELSE __new__(pint_to(q, other), other, q._prop, q._label)

\* _Quantity.__getitem__(key): key is [lo, hi, slice]; an index lo gives an
\* element, a slice the elements lo..hi.
__getitem__(q, key) ==
    IF q.magnitude.scalar THEN [err |-> "TypeError", out |-> <<>>]
    ELSE [err |-> "none",
          out |-> __new__([v |-> SubSeq(q.magnitude.v, key.lo, key.hi),
                           dtype |-> q.magnitude.dtype,
                           scalar |-> ~key.slice],
                          q.units, q._name.prop, q._name.label)]

\* An __iter__ written as a generator function: nothing runs at the call.
__iter___Generator(q) == [err |-> "none", out |-> <<>>]

\* _Quantity.__iter__(): iter(self.magnitude) runs at the call; out lists
\* what the iterator has yielded.
__iter__(q) ==
    IF q.magnitude.scalar THEN [err |-> "TypeError", out |-> <<>>]
    ELSE [err |-> "none", out |-> <<>>]

\* The k-th element yielded by it_outer.
it_outer(q, k) ==
    __new__([v |-> <<q.magnitude.v[k]>>, dtype |-> q.magnitude.dtype,
             scalar |-> TRUE],
            q.units, q._name.prop, q._name.label)

\* self[self.magnitude == 'UnderRange'] = self.__class__(0, 'Hz')
SetMarkersToZero(v) == [i \in DOMAIN v |-> IF v[i] = UnderRange THEN 0 ELSE v[i]]

\* self.astype(float) / 2
AstypeFloatHalved(v) == [i \in DOMAIN v |-> FDiv(Fl(v[i]), Fl(2))]

\* A clean that forgets the division by two.
clean_MarkersOnly(q) ==
    IF q.magnitude.scalar
    THEN [err |-> "AttributeError", self |-> q, out |-> <<>>]
    ELSE IF q.magnitude.dtype # "O"
    THEN [err |-> "Exception", self |-> q, out |-> <<>>]
    ELSE [err |-> "none",
          self |-> [q EXCEPT !.magnitude.v = SetMarkersToZero(@)],
          out |-> __new__([v |-> [i \in DOMAIN q.magnitude.v |->
                                     Fl(SetMarkersToZero(q.magnitude.v)[i])],
                           dtype |-> "float", scalar |-> FALSE],
                          q.units, q._name.prop, q._name.label)]

\* A clean without the test of the dtype: floats are halved as they are.
clean_NoDtypeCheck(q) ==
    IF q.magnitude.dtype # "O"
    THEN [err |-> "none", self |-> q,
          out |-> __new__([v |-> [i \in DOMAIN q.magnitude.v |->
                                     FDiv(q.magnitude.v[i], Fl(2))],
                           dtype |-> "float", scalar |-> q.magnitude.scalar],
                          q.units, q._name.prop, q._name.label)]
    ELSE [err |-> "none",
          self |-> [q EXCEPT !.magnitude.v = SetMarkersToZero(@)],
          out |-> __new__([v |-> AstypeFloatHalved(
                                     SetMarkersToZero(q.magnitude.v)),
                           dtype |-> "float", scalar |-> FALSE],
                          q.units, q._name.prop, q._name.label)]

\* _Quantity.clean(): self is the receiver afterwards.  A scalar magnitude
\* (a Python number) has no dtype attribute; an object array is cleaned as
\* a quantity in Hz.
clean(q) ==
    IF q.magnitude.scalar
    THEN [err |-> "AttributeError", self |-> q, out |-> <<>>]
    ELSE IF q.magnitude.dtype # "O"
    THEN [err |-> "Exception", self |-> q, out |-> <<>>]
    ELSE [err |-> "none",
          self |-> [q EXCEPT !.magnitude.v = SetMarkersToZero(@)],
          out |-> __new__([v |-> AstypeFloatHalved(
                                     SetMarkersToZero(q.magnitude.v)),
                           dtype |-> "float", scalar |-> FALSE],
                          q.units, q._name.prop, q._name.label)]

\* a + b by the arithmetic inherited from pint: b in the units of a, and a
\* result made by self.__class__(magnitude, units), prop and label left to
\* their defaults.
__add__(a, b) ==
    __new__([v |-> [i \in DOMAIN a.magnitude.v |->
                      FAdd(a.magnitude.v[i],
                           FMul(b.magnitude.v[i],
                                ConversionFactor(b.units, a.units)))],
             dtype |-> "float", scalar |-> a.magnitude.scalar],
            a.units, None, None)

(***************************************************************************)
(* The moving mean: _Quantity.movmean (xpint.py) and the function movmean  *)
(* of movmean.py, which share the computation of the moving sum.  Arrays   *)
(* are sequences, the Python index i being the position i + 1.             *)
(***************************************************************************)
Min(a, b) == IF a < b THEN a ELSE b
Max(a, b) == IF a > b THEN a ELSE b

\* np.zeros(k)
Zeros(k) == [i \in 1..k |-> 0]

RECURSIVE SumTo(_, _)
SumTo(a, k) == IF k = 0 THEN 0 ELSE SumTo(a, k - 1) + a[k]

\* np.cumsum(a, dtype=float)
cumsum(a) == [i \in 1..Len(a) |-> SumTo(a, i)]

\* The length numpy broadcasts two one-dimensional arrays of lengths m and
\* k to, -1 when it cannot.
Broadcast(m, k) ==
    IF m = k THEN m ELSE IF m = 1 THEN k ELSE IF k = 1 THEN m ELSE -1

\* a - b, element by element, an array of one element being broadcast.
Minus(a, b) ==
    [i \in 1..Broadcast(Len(a), Len(b)) |->
        (IF Len(a) = 1 THEN a[1] ELSE a[i])
        - (IF Len(b) = 1 THEN b[1] ELSE b[i])]

\* The index of a that mode='symmetric' gives the padded index k: the
\* mirror repeats the edge element.
PadIndex_Symmetric(k, N) ==
    LET r == k % (2 * N)
    IN IF r <= N - 1 THEN r ELSE 2 * N - 1 - r

\* The index of a (from 0) that np.pad(mode='reflect') gives the padded
\* index k, from -width to N - 1 + width: the mirror about the first and
\* last elements, repeated as far as the width asks; an array of one
\* element is extended by that element.
PadIndex(k, N) ==
    IF N = 1 THEN 0
    ELSE LET r == k % (2 * (N - 1))
         IN IF r <= N - 1 THEN r ELSE 2 * (N - 1) - r

\* np.pad(a, (width, width), 'reflect'), a not empty
pad(a, width) ==
    [j \in 1..(Len(a) + 2 * width) |->
        a[PadIndex(j - width - 1, Len(a)) + 1]]

\* Whether an array of srclen elements can be assigned to a slice of k.
Assignable(k, srclen) == srclen = k \/ srclen = 1

\* dst[lo..hi] = src
SetSlice(dst, lo, hi, src) ==
    [i \in 1..Len(dst) |->
        IF lo <= i /\ i <= hi
        THEN IF Len(src) = 1 THEN src[1] ELSE src[i - lo + 1]
        ELSE dst[i]]

ValueError == [err |-> "ValueError", out |-> <<>>]

\* The body shared by the two moving means (xpint.py 256-271, movmean.py
\* 31-51) on the array a: movsum / n, or the ValueError numpy raises on
\* shapes that do not fit and on padding an empty array.
MovingMean(a, n0) ==
    LET n == IF n0 % 2 = 0 THEN n0 + 1 ELSE n0
        l == (n - 1) \div 2
        N == Len(a)
        cs == cumsum(a)
        first == SubSeq(cs, l + 1, N) \o Zeros(l)
        second == Zeros(l + 1) \o SubSeq(cs, 1, N - l - 1)
    IN IF Broadcast(Len(first), Len(second)) = -1 THEN ValueError
       ELSE IF N = 0 THEN ValueError
       ELSE
         LET movsum == Minus(first, second)
             M == Len(movsum)
             cumsum_refl == cumsum(pad(a, l + 1))
             P == Len(cumsum_refl)
             movsum_refl == Minus(SubSeq(cumsum_refl, n + 1, P),
                                  SubSeq(cumsum_refl, 1, P - n))
             R == Len(movsum_refl)
             left == SubSeq(movsum_refl, 1, Min(l, R))
             right == SubSeq(movsum_refl, Max(R - l - 1, 0) + 1, R - 1)
             lo == IF l = 0 THEN 1 ELSE Max(M - l, 0) + 1
         IN IF ~Assignable(Min(l, M), Len(left)) THEN ValueError
            ELSE IF ~Assignable(M - lo + 1, Len(right)) THEN ValueError
            ELSE LET edged == SetSlice(SetSlice(movsum, 1, Min(l, M), left),
                                       lo, M, right)
                 IN [err |-> "none",
                     out |-> [i \in 1..M |-> [num |-> edged[i], den |-> n]]]

\* movmean(a, n) of movmean.py, a a plain array
movmean_array(a, n) == MovingMean(a, n)

\* _Quantity.movmean(n)
movmean(q, n) ==
    IF q.magnitude.scalar THEN ValueError
    ELSE IF Len(q.magnitude.v) < 3 THEN ValueError
    ELSE LET r == MovingMean(q.magnitude.v, n)
         IN IF r.err # "none" THEN r
            ELSE [err |-> "none",
                  out |-> __new__([v |-> r.out, dtype |-> "float",
                                   scalar |-> FALSE],
                                  q.units, q._name.prop, q._name.label)]

(***************************************************************************)
(* The checks of sauroneye.py (src/vaplac/vaplac), given the quantities    *)
(* dtk.get returns.  A check reports its warnings through error(field,     *)
(* msg); out lists the messages.                                           *)
(***************************************************************************)
\* (wr < ws).sum()
CountBelow(wr, ws) ==
    Cardinality({i \in DOMAIN wr : wr[i] < ws[i]})

\* A test that also warns at the threshold.
OverThreshold_Inclusive(k, N) == 100 * k >= 2 * N

\* overhum > 0.02, overhum = k / N
OverThreshold(k, N) == 100 * k > 2 * N

\* '{:.1%}'.format(k / N): the percentage rounded to one decimal, ties to
\* even, as <<integer part, decimal>>.
FormatPercent(k, N) ==
    LET q == (1000 * k) \div N
        r == (1000 * k) % N
        t == IF 2 * r > N \/ (2 * r = N /\ q % 2 = 1) THEN q + 1 ELSE q
    IN <<t \div 10, t % 10>>

humidity_check(wr, ws) ==
    LET overhum == [k |-> CountBelow(wr.magnitude.v, ws.magnitude.v),
                    N |-> Len(wr.magnitude.v)]
    IN [err |-> "none",
        out |-> IF OverThreshold(overhum.k, overhum.N)
                THEN <<[msg |-> "The supply humidity ratio exceeds the return humidity ratio {} of the time.",
                        percent |-> FormatPercent(overhum.k, overhum.N)]>>
                ELSE <<>>]

window_size == 15

\* slice(window_size//2, -window_size//2) on an array of N elements, as the
\* first and last positions taken.
Interval(N) ==
    [lo |-> window_size \div 2 + 1, hi |-> N + ((-window_size) \div 2),
     slice |-> TRUE]

\* f[interval] - fmean[interval], the fractions of one denominator
Residual(f, fmean, interval) ==
    [i \in 1..(interval.hi - interval.lo + 1) |->
        [num |-> f[interval.lo + i - 1] * fmean[interval.lo + i - 1].den
                   - fmean[interval.lo + i - 1].num,
         den |-> fmean[interval.lo + i - 1].den]]

RECURSIVE SumNum(_, _)
SumNum(x, k) == IF k = 0 THEN 0 ELSE SumNum(x, k - 1) + x[k].num

RECURSIVE SumSquares(_, _)
SumSquares(x, k) ==
    IF k = 0 THEN 0 ELSE SumSquares(x, k - 1) + x[k].num * x[k].num

\* np.var(x) > limit, x fractions of denominator den: the variance is
\* (m * sum(num^2) - sum(num)^2) / (den^2 * m^2); of no element it is nan,
\* which exceeds nothing.
VarianceExceeds(x, limit) ==
    LET m == Len(x)
    IN IF m = 0 THEN FALSE
       ELSE m * SumSquares(x, m) - SumNum(x, m) * SumNum(x, m)
               > limit * x[1].den * x[1].den * m * m

cycling_check(f) ==
    LET fmean == movmean(f, window_size)
    IN IF fmean.err # "none" THEN [err |-> fmean.err, out |-> <<>>]
       ELSE LET x == Residual(f.magnitude.v, fmean.out.magnitude.v,
                              Interval(Len(f.magnitude.v)))
            IN [err |-> "none",
                out |-> IF VarianceExceeds(x, 100)
                        THEN <<[msg |-> "There appears to be cycling."]>>
                        ELSE <<>>]

(***************************************************************************)
(* explore (src/explore.py), with return_data=True: the list plotvar it    *)
(* returns.  An element of plotvar is [key, by]: the quantity of a key     *)
(* and the function that made it.  f_dtype is the dtype of the logged      *)
(* frequency column: 'O' when it holds a marker.                           *)
(***************************************************************************)
ExploreDerived == {"Qcond", "Qev", "Pcomp", "Pel"}

\* list(np.setdiff1d(ar1, ar2, assume_unique=True)): ar1 is not sorted
setdiff1d(ar1, ar2) == SelectSeq(ar1, LAMBDA a : a \notin ar2)

\* list.index(x), x in the list, counted from 0
index(list, x) == (CHOOSE i \in 1..Len(list) :
                      list[i] = x /\ \A j \in 1..(i - 1) : list[j] # x) - 1

\* list.insert(i, x), i >= 0: past the end of the list, x is appended.
insert(list, i, x) ==
    IF i >= Len(list) THEN Append(list, x)
    ELSE SubSeq(list, 1, i) \o <<x>> \o SubSeq(list, i + 1, Len(list))

\* get(raw_data, qt)
explore_get(qt, f_dtype) ==
    [key |-> qt, by |-> "get", dtype |-> IF qt = "f" THEN f_dtype ELSE "float"]

\* get_var(qt)
get_var(qt, measurements, plotvar, f_dtype) ==
    IF qt \in Range(measurements) THEN plotvar[index(measurements, qt) + 1]
    ELSE explore_get(qt, f_dtype)

\* Lines 481-482.  st is [err, plotvar].
ExploreCleanF(st, args, measurements, f_dtype) ==
    IF "f" \notin Range(args) THEN st
    ELSE IF get_var("f", measurements, st.plotvar, f_dtype).dtype # "O"
    THEN [st EXCEPT !.err = "Exception"]
    ELSE [st EXCEPT !.plotvar[index(measurements, "f") + 1] =
                        [key |-> "f", by |-> "clean", dtype |-> "float"]]

\* Lines 484-497.
ExploreFlow(st, args, measurements, f_dtype) ==
    IF st.err # "none" THEN st
    ELSE IF Range(args) \cap {"mDotRef", "Qcond", "Qev", "Pcomp"} = {} THEN st
    ELSE IF get_var("f", measurements, st.plotvar, f_dtype).dtype # "O"
    THEN [st EXCEPT !.err = "Exception"]
    ELSE IF "mDotRef" \in Range(args)
    THEN [st EXCEPT !.plotvar[index(measurements, "mDotRef") + 1] =
                        [key |-> "mDotRef", by |-> "get", dtype |-> "float"]]
    ELSE st

\* One of the blocks of lines 500-553: the quantity of a derived key is
\* computed and inserted at the index its key has in args.
ExploreInsert(st, args, key, by) ==
    IF st.err # "none" \/ key \notin Range(args) THEN st
    ELSE [st EXCEPT !.plotvar =
             insert(@, index(args, key),
                    [key |-> key, by |-> by, dtype |-> "float"])]

explore(args, f_dtype) ==
    LET measurements == setdiff1d(args, ExploreDerived)
        data == [i \in 1..Len(measurements) |->
                    explore_get(measurements[i], f_dtype)]
        st0 == [err |-> "none", plotvar |-> data]
        st1 == ExploreFlow(ExploreCleanF(st0, args, measurements, f_dtype),
                           args, measurements, f_dtype)
        st2 == ExploreInsert(st1, args, "Qcond", "thermo_cal")
        st3 == ExploreInsert(st2, args, "Qev", "thermo_cal")
        st4 == ExploreInsert(st3, args, "Pcomp", "thermo_cal")
        st5 == ExploreInsert(st4, args, "Pel", "add")
    IN IF st5.err # "none" THEN [err |-> st5.err, out |-> <<>>]
       ELSE [err |-> "none",
             out |-> IF Len(args) > 1 THEN st5.plotvar ELSE st5.plotvar[1]]

VARIABLES
    raw_data,        \* DataTaker.raw_data: column -> values
    file_data,       \* the columns as they were read from the file
    name_converter,  \* DataTaker._name_converter
    quantities,      \* DataTaker.quantities: key -> Quantity
    heat_log,        \* per power key, the arguments and locals of its _heat call
    last_get,        \* the last get call: its keys, value and exception
    ncalls,          \* number of get calls made
    heat_args,       \* arguments of a stand-alone _heat computation
    heat_out,        \* its locals and result
    q_obj,           \* a Quantity taken on its own
    q_res            \* the last operation made on it and its outcome

vars == <<raw_data, file_data, name_converter, quantities, heat_log, last_get,
          ncalls, heat_args, heat_out, q_obj, q_res>>

quantity_vars == <<q_obj, q_res>>

store_vars == <<raw_data, file_data, name_converter, quantities, heat_log,
                last_get, ncalls>>

NoGet == [keys |-> <<>>, ret |-> <<>>, single |-> FALSE, err |-> "none"]

(***************************************************************************)
(* Specification of a DataTaker serving get calls.                         *)
(***************************************************************************)
FValues == {UnderRange, 0, 10}

Const(v) == [i \in Samples |-> v]

\* A data file: frequency f, flow rate m and flow direction d per sample;
\* the circuit is at a steady operating point; the phase powers are 2 kW
\* and 3 kW, logged in the units uPa and uPb.
DataFile(uPa, uPb, f, m, d) ==
    [c \in NconvKeys |->
        CASE c = "f" -> f
          [] c = "flowrt_r" -> m
          [] c = "refdir" -> d
          [] c = "pin" -> Const(800000)
          [] c = "pout" -> Const(2500000)
          [] c = "T1" -> Const(293)
          [] c = "T2" -> Const(353)
          [] c = "T4" -> Const(353)
          [] c = "T6" -> Const(293)
          [] c = "T7" -> Const(293)
          [] c = "T9" -> Const(263)
          [] c = "Ts" -> Const(293)
          [] c = "RHs" -> Const(50)
          [] c = "Tr" -> Const(293)
          [] c = "RHr" -> Const(100)
          [] c = "Pa" -> Const(Convert(2, "kW", uPa))
          [] c = "Pb" -> Const(Convert(3, "kW", uPb))]

\* The flow rate columns: 100 g/s throughout, or 0 at the first sample.
FlowColumns == {Const(100), [Const(100) EXCEPT ![1] = 0]}

\* The data files with both powers in W: every frequency column with each
\* flow rate column in the direct flow direction, and every flow direction
\* column at a steady frequency.
VariedFiles ==
    {DataFile("W", "W", f, m, Const(0)) :
        f \in Batches(FValues), m \in FlowColumns}
    \cup {DataFile("W", "W", Const(10), Const(100), d) : d \in Batches({0, 1})}

PowerUnits == {"W", "kW"}

\* The strings passed to get, split.
Requests ==
    {<<"flowrt_r">>, <<"f">>, <<"flowrt_r", "f">>,
     <<"T4", "Qcond">>, <<"Qev", "Pcomp", "Qcond">>,
     <<"Pel">>, <<"Pb", "T6", "Pb">>,
     <<"Qloss_ev", "T1">>, <<"T2", "Tx">>, <<"wr", "ws">>}

\* The keys passed to _build_quantities by a direct call.
BuildRequests ==
    {{"f"}, {"flowrt_r"}, {"f", "flowrt_r"}, {"T4", "T6"}, {"Qcond"},
     {"Pa", "Pel"}}

\* The steady file with the column of T6 missing.
MissingColumnFile ==
    [c \in NconvKeys \ {"T6"} |->
        DataFile("W", "W", Const(10), Const(100), Const(0))[c]]

Init ==
    /\ \/ /\ name_converter = NameConverter("W", "W")
          /\ file_data \in VariedFiles
       \/ \E uPa \in PowerUnits, uPb \in PowerUnits :
             /\ name_converter = NameConverter(uPa, uPb)
             /\ file_data = DataFile(uPa, uPb, Const(10), Const(100), Const(0))
       \/ /\ name_converter = NameConverter("W", "W")
          /\ file_data = MissingColumnFile
    /\ raw_data = file_data
    /\ quantities = EmptyMap
    /\ heat_log = EmptyMap
    /\ last_get = NoGet
    /\ ncalls = 0
    /\ heat_args = <<>>
    /\ heat_out = <<>>
    /\ q_obj = <<>>
    /\ q_res = <<>>

\* A client calls get(quantities).
Get(keys, ord) ==
    /\ ncalls < MaxCalls
    /\ \E s \in {get([q |-> quantities, raw |-> raw_data, log |-> heat_log,
                      ret |-> <<>>, single |-> FALSE, err |-> "none"],
                     name_converter, keys, ord)} :
          /\ quantities' = s.q
          /\ raw_data' = s.raw
          /\ heat_log' = s.log
          /\ last_get' = [keys |-> keys, ret |-> s.ret, single |-> s.single,
                          err |-> s.err]
    /\ ncalls' = ncalls + 1
    /\ UNCHANGED <<file_data, name_converter, heat_args, heat_out,
                   quantity_vars>>

\* A client calls _build_quantities(*keys, update=update).
Build(keys, update, ord) ==
    /\ ncalls < MaxCalls
    /\ \E s \in {_build_quantities(
                     [q |-> quantities, raw |-> raw_data, log |-> heat_log,
                      ret |-> <<>>, single |-> FALSE, err |-> "none"],
                     name_converter, keys, update, ord)} :
          /\ quantities' = s.q
          /\ raw_data' = s.raw
          /\ heat_log' = s.log
          /\ last_get' = [keys |-> <<>>, ret |-> <<>>, single |-> FALSE,
                          err |-> s.err]
    /\ ncalls' = ncalls + 1
    /\ UNCHANGED <<file_data, name_converter, heat_args, heat_out,
                   quantity_vars>>

Next ==
    \/ \E keys \in Requests, ord \in Orders : Get(keys, ord)
    \/ \E keys \in BuildRequests, update \in BOOLEAN, ord \in Orders :
          Build(keys, update, ord)

Spec == Init /\ [][Next]_vars

(***************************************************************************)
(* Specification of one _heat computation on an arbitrary batch.           *)
(***************************************************************************)
HeatInit ==
    /\ heat_args \in [power : HeatKeys,
                      flow : Batches(FlowValues),
                      pin : Batches(Pressures), Tin : Batches(HeatTemps),
                      pout : Batches(Pressures), Tout : Batches(HeatTemps)]
    /\ heat_out = <<>>
    /\ raw_data = EmptyMap
    /\ file_data = EmptyMap
    /\ name_converter = EmptyMap
    /\ quantities = EmptyMap
    /\ heat_log = EmptyMap
    /\ last_get = NoGet
    /\ ncalls = 0
    /\ q_obj = <<>>
    /\ q_res = <<>>

HeatStep ==
    /\ heat_out = <<>>
    /\ heat_out' = <<HeatRun(heat_args.power, heat_args.flow,
                             heat_args.pin, heat_args.Tin,
                             heat_args.pout, heat_args.Tout)>>
    /\ UNCHANGED <<heat_args, store_vars, quantity_vars>>

HeatNext == HeatStep

SpecHeat == HeatInit /\ [][HeatNext]_vars

(***************************************************************************)
(* Specification of the operations made on one Quantity.                   *)
(***************************************************************************)
\* The array magnitudes: logged objects, and floats.
ObjectArrays ==
    {[v |-> v, dtype |-> "O", scalar |-> FALSE] :
        v \in [1..QLen -> {UnderRange, 6, 10}]}

FloatArrays ==
    {[v |-> v, dtype |-> "float", scalar |-> FALSE] :
        v \in [1..QLen -> {Fl(2), Fl(15)}]}

\* The quantities returned by clean() on the logged frequencies.
CleanedQuantities ==
    {clean(__new__(value, "Hz", "frequency", "$f$")).out :
        value \in ObjectArrays}

\* The quantities operated on, with the cleaned ones: logged frequencies,
\* powers with and without prop and label, and a scalar current.
TestQuantities ==
    {__new__(value, "Hz", "frequency", "$f$") : value \in ObjectArrays}
    \cup {__new__(value, units, "electrical power", "$P_a$") :
             value \in FloatArrays, units \in {"W", "kW"}}
    \cup {__new__(value, "W", None, None) : value \in FloatArrays}
    \cup {__new__([v |-> <<Fl(3)>>, dtype |-> "float", scalar |-> TRUE],
                  "A", "electrical current", "$I$")}

Props == {None, "pressure"}
Labels == {None, "$p$"}

\* The keys of __getitem__: every index and every slice lo:hi.
ItemKeys ==
    {[lo |-> i, hi |-> i, slice |-> FALSE] : i \in 1..QLen}
    \cup {[lo |-> i, hi |-> j, slice |-> TRUE] : i \in 1..QLen, j \in 1..QLen}

NoOp == [op |-> "none", arg |-> <<>>, err |-> "none", out |-> <<>>]

QuantityInit ==
    /\ \/ q_obj \in TestQuantities
       \/ q_obj \in CleanedQuantities
    /\ q_res = NoOp
    /\ raw_data = EmptyMap
    /\ file_data = EmptyMap
    /\ name_converter = EmptyMap
    /\ quantities = EmptyMap
    /\ heat_log = EmptyMap
    /\ last_get = NoGet
    /\ ncalls = 0
    /\ heat_args = <<>>
    /\ heat_out = <<>>

Convertible(q) == q.magnitude.dtype = "float" /\ q.units \in {"W", "kW"}

\* q.to(other)
QTo(other) ==
    /\ Convertible(q_obj)
    /\ q_res' = [op |-> "to", arg |-> other, err |-> "none",
                 out |-> to(q_obj, other)]
    /\ UNCHANGED <<q_obj, store_vars, heat_args, heat_out>>

\* q.to(u1), q.to(u1).to(u2) and q.to(u1).to(u2).to(u1)
QRoundTrip(u1, u2) ==
    /\ Convertible(q_obj)
    /\ q_res' = [op |-> "roundtrip", arg |-> <<u1, u2>>, err |-> "none",
                 out |-> <<to(q_obj, u1), to(to(q_obj, u1), u2),
                           to(to(to(q_obj, u1), u2), u1)>>]
    /\ UNCHANGED <<q_obj, store_vars, heat_args, heat_out>>

\* q.set_prop(prop)
QSetProp(prop) ==
    /\ q_obj' = set_prop(q_obj, prop)
    /\ q_res' = [op |-> "set_prop", arg |-> prop, err |-> "none", out |-> <<>>]
    /\ UNCHANGED <<store_vars, heat_args, heat_out>>

\* q.set_label(label)
QSetLabel(label) ==
    /\ q_obj' = set_label(q_obj, label)
    /\ q_res' = [op |-> "set_label", arg |-> label, err |-> "none",
                 out |-> <<>>]
    /\ UNCHANGED <<store_vars, heat_args, heat_out>>

\* q.set_name(prop, label)
QSetName(prop, label) ==
    /\ q_obj' = set_name(q_obj, prop, label)
    /\ q_res' = [op |-> "set_name", arg |-> <<prop, label>>, err |-> "none",
                 out |-> <<>>]
    /\ UNCHANGED <<store_vars, heat_args, heat_out>>

\* q[key]
QGetItem(key) ==
    /\ key.lo <= key.hi
    /\ q_res' = [op |-> "getitem", arg |-> key,
                 err |-> __getitem__(q_obj, key).err,
                 out |-> __getitem__(q_obj, key).out]
    /\ UNCHANGED <<q_obj, store_vars, heat_args, heat_out>>

\* iter(q)
QIter ==
    /\ q_res' = [op |-> "iter", arg |-> <<>>, err |-> __iter__(q_obj).err,
                 out |-> __iter__(q_obj).out]
    /\ UNCHANGED <<q_obj, store_vars, heat_args, heat_out>>

\* next(it) on the iterator returned by the last iter(q): the for loop of
\* it_outer draws the next element of it_magnitude and yields.
QNext ==
    /\ q_res.op = "iter"
    /\ q_res.err = "none"
    /\ IF q_obj.magnitude.scalar
       THEN q_res' = [q_res EXCEPT !.err = "TypeError"]
       ELSE /\ Len(q_res.out) < Len(q_obj.magnitude.v)
            /\ q_res' = [q_res EXCEPT
                            !.out = Append(@, it_outer(q_obj, Len(@) + 1))]
    /\ UNCHANGED <<q_obj, store_vars, heat_args, heat_out>>

\* q.clean(), an object array being in Hz; arg keeps the elements q had at
\* the call.
QClean ==
    /\ q_obj.magnitude.dtype = "O" => q_obj.units = "Hz"
    /\ q_obj' = clean(q_obj).self
    /\ q_res' = [op |-> "clean", arg |-> q_obj.magnitude.v,
                 err |-> clean(q_obj).err, out |-> clean(q_obj).out]
    /\ UNCHANGED <<store_vars, heat_args, heat_out>>

\* q + other, other a quantity of the same prop and label.
QAdd(other) ==
    /\ Convertible(q_obj)
    /\ Convertible(other)
    /\ other._prop = q_obj._prop
    /\ other._label = q_obj._label
    /\ q_res' = [op |-> "add", arg |-> other, err |-> "none",
                 out |-> __add__(q_obj, other)]
    /\ UNCHANGED <<q_obj, store_vars, heat_args, heat_out>>

QuantityNext ==
    \/ \E other \in {None, "W", "kW"} : QTo(other)
    \/ \E u1 \in {"W", "kW"}, u2 \in {"W", "kW"} : QRoundTrip(u1, u2)
    \/ \E prop \in Props \ {None} : QSetProp(prop)
    \/ \E label \in Labels \ {None} : QSetLabel(label)
    \/ \E prop \in Props, label \in Labels : QSetName(prop, label)
    \/ \E key \in ItemKeys : QGetItem(key)
    \/ QIter
    \/ QNext
    \/ QClean
    \/ \E other \in TestQuantities : QAdd(other)

SpecQuantity == QuantityInit /\ [][QuantityNext]_vars

(***************************************************************************)
(* Specification of the moving means taken of one array.                   *)
(***************************************************************************)
MovValues == {2, 15}

\* The arrays of at most MovLen samples.
MovArrays ==
    UNION {[1..len -> MovValues] : len \in 0..MovLen}

\* A quantity of each array, and a scalar one.
MovQuantities ==
    {__new__([v |-> a, dtype |-> "float", scalar |-> FALSE],
             "Hz", "frequency", "$f$") : a \in MovArrays}
    \cup {__new__([v |-> <<15>>, dtype |-> "float", scalar |-> TRUE],
                  "Hz", "frequency", "$f$")}

\* The window sizes, up to more than twice the longest array.
Windows == 0..(2 * MovLen + 2)

MovmeanInit ==
    /\ q_obj \in MovQuantities
    /\ q_res = NoOp
    /\ raw_data = EmptyMap
    /\ file_data = EmptyMap
    /\ name_converter = EmptyMap
    /\ quantities = EmptyMap
    /\ heat_log = EmptyMap
    /\ last_get = NoGet
    /\ ncalls = 0
    /\ heat_args = <<>>
    /\ heat_out = <<>>

\* q.movmean(n)
QMovmean(n) ==
    /\ q_res' = [op |-> "movmean", arg |-> n, err |-> movmean(q_obj, n).err,
                 out |-> movmean(q_obj, n).out]
    /\ UNCHANGED <<q_obj, store_vars, heat_args, heat_out>>

\* movmean(a, n) of movmean.py, a the array q holds
QMovmeanArray(n) ==
    /\ ~q_obj.magnitude.scalar
    /\ q_res' = [op |-> "movmean_array", arg |-> n,
                 err |-> movmean_array(q_obj.magnitude.v, n).err,
                 out |-> movmean_array(q_obj.magnitude.v, n).out]
    /\ UNCHANGED <<q_obj, store_vars, heat_args, heat_out>>

MovmeanNext ==
    \/ \E n \in Windows : QMovmean(n)
    \/ \E n \in Windows : QMovmeanArray(n)

SpecMovmean == MovmeanInit /\ [][MovmeanNext]_vars

(***************************************************************************)
(* Specification of the checks made on one DataTaker.                      *)
(***************************************************************************)
HumLens == {30, 50, 100}

\* The return humidity ratios of N samples, `below` of them under the
\* supply humidity ratio 7 g/kg and `equal` of them equal to it.
ReturnHumidity(N, below, equal) ==
    [i \in 1..N |-> IF i <= below THEN 6
                    ELSE IF i <= below + equal THEN 7 ELSE 8]

CycValues == {0, 90}

\* The frequency series: still, but for three samples around the end of
\* the first window.
CycSeries ==
    {[i \in 1..N |-> IF i = 8 THEN a ELSE IF i = 9 THEN b
                               ELSE IF i = 10 THEN c ELSE 0] :
        N \in window_size..CycLen, a \in CycValues, b \in CycValues,
        c \in CycValues}

Float(a) == [v |-> a, dtype |-> "float", scalar |-> FALSE]

\* What dtk.get gives of wr, ws and f.
ValidateInit ==
    /\ \E N \in HumLens, below \in 0..MaxBelow, equal \in 0..1, f \in CycSeries :
          q_obj = [wr |-> __new__(Float(ReturnHumidity(N, below, equal)),
                                  "g/kg", "absolute humidity", HumLabel("wr")),
                   ws |-> __new__(Float([i \in 1..N |-> 7]),
                                  "g/kg", "absolute humidity", HumLabel("ws")),
                   f |-> __new__(Float(f), "Hz", "frequency", "$f$")]
    /\ q_res = NoOp
    /\ raw_data = EmptyMap
    /\ file_data = EmptyMap
    /\ name_converter = EmptyMap
    /\ quantities = EmptyMap
    /\ heat_log = EmptyMap
    /\ last_get = NoGet
    /\ ncalls = 0
    /\ heat_args = <<>>
    /\ heat_out = <<>>

HumidityCheck ==
    /\ q_res' = [op |-> "humidity_check", arg |-> <<>>,
                 err |-> humidity_check(q_obj.wr, q_obj.ws).err,
                 out |-> humidity_check(q_obj.wr, q_obj.ws).out]
    /\ UNCHANGED <<q_obj, store_vars, heat_args, heat_out>>

CyclingCheck ==
    /\ q_res' = [op |-> "cycling_check", arg |-> <<>>,
                 err |-> cycling_check(q_obj.f).err,
                 out |-> cycling_check(q_obj.f).out]
    /\ UNCHANGED <<q_obj, store_vars, heat_args, heat_out>>

ValidateNext ==
    \/ HumidityCheck
    \/ CyclingCheck

SpecValidate == ValidateInit /\ [][ValidateNext]_vars

(***************************************************************************)
(* Specification of one call of explore.                                   *)
(***************************************************************************)
ExploreKeys == {"T1", "f", "mDotRef"} \cup ExploreDerived

\* The argument lists: keys without repetition.
ExploreArgs ==
    UNION {{a \in [1..len -> ExploreKeys] :
               \A i \in 1..len, j \in 1..len : a[i] = a[j] => i = j} :
           len \in 1..ExploreLen}

ExploreInit ==
    /\ q_obj \in [args : ExploreArgs, f_dtype : {"O", "float"}]
    /\ q_res = NoOp
    /\ raw_data = EmptyMap
    /\ file_data = EmptyMap
    /\ name_converter = EmptyMap
    /\ quantities = EmptyMap
    /\ heat_log = EmptyMap
    /\ last_get = NoGet
    /\ ncalls = 0
    /\ heat_args = <<>>
    /\ heat_out = <<>>

\* explore(*args, plot_data=False, return_data=True)
Explore ==
    /\ q_res.op = "none"
    /\ q_res' = [op |-> "explore", arg |-> q_obj.args,
                 err |-> explore(q_obj.args, q_obj.f_dtype).err,
                 out |-> explore(q_obj.args, q_obj.f_dtype).out]
    /\ UNCHANGED <<q_obj, store_vars, heat_args, heat_out>>

ExploreNext == Explore

SpecExplore == ExploreInit /\ [][ExploreNext]_vars

(***************************************************************************)
(* Claims about _heat                                                      *)
(***************************************************************************)
HeatDone == heat_out # <<>>

\* The expected phase named by a phase label of the lookup service.
SamePhase(label, exp_phase) ==
    \/ exp_phase = "gas" /\ label = "gas"
    \/ exp_phase = "liq" /\ label = "liquid"

\* What the corrected-enthalpy step is to yield for one sample.
ResolvedEnthalpy(p, T, exp_phase) ==
    IF SamePhase(PhaseSI(p, T), exp_phase)
    THEN PropsSI_HPT(p, T)
    ELSE PropsSI_HPQ(p, IF exp_phase = "liq" THEN 0 ELSE 1)

\* C1: in every batch, for the inlet and the outlet state, a sample whose
\* actual phase differs from the expected phase gets the saturation enthalpy
\* at its pressure (quality 0 for liquid, 1 for gas) and a sample whose
\* actual phase is the expected one keeps its raw enthalpy.
C1_PhaseCorrection ==
    HeatDone =>
        \A i \in Samples :
            /\ heat_out[1].hin[i] =
                  ResolvedEnthalpy(heat_args.pin[i], heat_args.Tin[i],
                                   ExpPhases(heat_args.power)[1])
            /\ heat_out[1].hout[i] =
                  ResolvedEnthalpy(heat_args.pout[i], heat_args.Tout[i],
                                   ExpPhases(heat_args.power)[2])

AllInPhase(p, T, exp_phase) ==
    \A i \in Samples : SamePhase(PhaseSI(p[i], T[i]), exp_phase)

\* C2: when every sample of a state is already in the expected phase, the
\* enthalpy used is the raw enthalpy and no saturation lookup is made, for
\* an expected gas and for an expected liquid alike.
C2_Idempotence ==
    HeatDone =>
        /\ AllInPhase(heat_args.pin, heat_args.Tin, ExpPhases(heat_args.power)[1])
              => /\ heat_out[1].hin = RawEnthalpy(heat_args.pin, heat_args.Tin)
                 /\ ~ heat_out[1].lookup_in
        /\ AllInPhase(heat_args.pout, heat_args.Tout, ExpPhases(heat_args.power)[2])
              => /\ heat_out[1].hout = RawEnthalpy(heat_args.pout, heat_args.Tout)
                 /\ ~ heat_out[1].lookup_out

\* C3: the enthalpy of sample i depends on sample i alone: any other batch
\* with the same pressure and temperature at i gives the same enthalpy at i.
C3_SampleIndependence ==
    HeatDone =>
        \A p \in Batches(Pressures), T \in Batches(HeatTemps), i \in Samples :
            (p[i] = heat_args.pin[i] /\ T[i] = heat_args.Tin[i])
                => Enthalpy(p, T, ExpPhases(heat_args.power)[1])[i]
                     = heat_out[1].hin[i]

\* C6: for every sample the power in kW is flow * (h_out - h_in) * sign,
\* sign -1 for Qcond and +1 otherwise, h the enthalpies _heat ends with
\* (flow in thousandths of kg/s, h in J/kg: 10^6 of their product per kW).
C6_HeatFormula ==
    HeatDone =>
        /\ heat_out[1].pow.units = "kW"
        /\ \A i \in Samples :
              heat_out[1].pow.mag[i] * 1000000 =
                  heat_args.flow[i]
                  * (heat_out[1].hout[i] - heat_out[1].hin[i])
                  * (IF heat_args.power = "Qcond" THEN -1 ELSE 1)

\* C6 witness: 0.1 kg/s from 450 kJ/kg to 250 kJ/kg gives Qcond = +20 kW.
C6_Witness ==
    /\ HeatDone
    /\ heat_args.power = "Qcond"
    /\ heat_args.flow[1] = 100
    /\ heat_out[1].hin[1] = 450000
    /\ heat_out[1].hout[1] = 250000
    /\ heat_out[1].pow.mag[1] = 20

(***************************************************************************)
(* Claims about the DataTaker                                              *)
(***************************************************************************)
Cached(k) == k \in DOMAIN quantities

\* The cleaned frequency of a logged column: marker replaced by 0, halved.
CleanedFrequency(col) ==
    [i \in DOMAIN col |-> IF col[i] = UnderRange THEN 0 ELSE col[i] \div 2]

\* C4: whenever flowrt_r is cached, it is 0 at every sample where the
\* cleaned frequency of the file is 0, whether or not f is cached.
C4_FlowZeroing ==
    Cached("flowrt_r") =>
        \A i \in Samples :
            CleanedFrequency(file_data["f"])[i] = 0
                => quantities["flowrt_r"].mag[i] = 0

\* C4 witness: flowrt_r is cached and f is not; a sample logged with the
\* marker and a flow rate of 100 g/s has a cached flow rate of 0.
C4_Witness ==
    /\ Cached("flowrt_r")
    /\ ~Cached("f")
    /\ \E i \in Samples :
          /\ file_data["f"][i] = UnderRange
          /\ file_data["flowrt_r"][i] = 100
          /\ quantities["flowrt_r"].mag[i] = 0

\* The cleaned flow rate of a file (g/s, i.e. thousandths of kg/s).
CleanedFlow(file) ==
    [i \in Samples |->
        IF CleanedFrequency(file["f"])[i] = 0 THEN 0 ELSE file["flowrt_r"][i]]

NonzeroCount(col) == Cardinality({i \in DOMAIN col : col[i] # 0})

\* The states of a power key under the two outcomes of the flow direction.
DirectStates(q) ==
    CASE q = "Qcond" -> <<"pout", "T4", "pout", "T6">>
      [] q = "Qev" -> <<"pout", "T6", "pin", "T9">>
      [] q = "Pcomp" -> <<"pin", "T1", "pout", "T2">>

AlternateStates(q) ==
    CASE q = "Qcond" -> <<"pout", "T9", "pout", "T7">>
      [] q = "Qev" -> <<"pout", "T7", "pin", "T4">>
      [] q = "Pcomp" -> <<"pin", "T1", "pout", "T2">>

\* C7: Qcond, Qev and Pcomp use the first mapping when strictly fewer than
\* half of the refdir samples are nonzero and the alternate mapping
\* otherwise (the tie included), one choice for the whole batch.
C7_FlowDirection ==
    \A q \in DOMAIN heat_log \cap {"Qcond", "Qev", "Pcomp"} :
        heat_log[q].ref_states =
            IF 2 * NonzeroCount(file_data["refdir"]) < NSamples
            THEN DirectStates(q)
            ELSE AlternateStates(q)

\* C7 witness: exactly half of the refdir samples are nonzero and Qcond was
\* computed between (pout, T9) and (pout, T7).
C7_Witness ==
    /\ 2 * NonzeroCount(file_data["refdir"]) = NSamples
    /\ "Qcond" \in DOMAIN heat_log
    /\ heat_log["Qcond"].ref_states = <<"pout", "T9", "pout", "T7">>

\* The logged power of column c in watts.
Watts(c) ==
    [i \in Samples |-> file_data[c][i] * (IF name_converter[c].units = "kW"
                                          THEN 1000 ELSE 1)]

\* C8: Pel is the sample-wise sum of Pa and Pb in kW, whatever their units
\* in the name map, with prop 'electrical power' and the fixed label.
C8_Pel ==
    Cached("Pel") =>
        /\ quantities["Pel"].units = "kW"
        /\ quantities["Pel"].prop = "electrical power"
        /\ quantities["Pel"].label = "$P_{el}$"
        /\ \A i \in Samples :
              quantities["Pel"].mag[i] * 1000 = Watts("Pa")[i] + Watts("Pb")[i]

\* C8 witness: Pa logged as 2 kW and Pb as 3000 W give Pel = 5 kW.
C8_Witness ==
    /\ Cached("Pel")
    /\ name_converter["Pa"].units = "kW"
    /\ name_converter["Pb"].units = "W"
    /\ file_data["Pa"][1] = 2
    /\ file_data["Pb"][1] = 3000
    /\ quantities["Pel"].mag[1] = 5

\* C9: a get of one key returns the Quantity of that key; a get of several
\* keys returns one element per requested key, the k-th being the cached
\* quantity of the k-th key.
C9_RequestOrder ==
    (last_get.keys # <<>> /\ last_get.err = "none") =>
        /\ last_get.single = (Len(last_get.keys) = 1)
        /\ Len(last_get.ret) = Len(last_get.keys)
        /\ \A k \in 1..Len(last_get.keys) :
              last_get.ret[k] = quantities[last_get.keys[k]]

\* C9 witness: get('Pb T6 Pb') returned Pb, T6 and Pb again.
C9_Witness ==
    /\ last_get.keys = <<"Pb", "T6", "Pb">>
    /\ last_get.err = "none"
    /\ ~last_get.single
    /\ last_get.ret[1].label = "Pb"
    /\ last_get.ret[2].label = "T6"
    /\ last_get.ret[3].label = "Pb"

\* C10: a key of the cache is assigned once: no step of a get call replaces
\* an entry, and get returns the object first built.
C10_BuiltOnce ==
    /\ \A k \in DOMAIN quantities : quantities[k].obj = 1
    /\ \A k \in 1..Len(last_get.ret) : last_get.ret[k].obj = 1

\* The keys a requested key is computed from, by the flow direction of the
\* file.
NeededInputs(k) ==
    CASE k \in {"Qcond", "Qev", "Pcomp"} ->
           {"refdir", "flowrt_r"} \cup
           Range(IF 2 * NonzeroCount(file_data["refdir"]) < NSamples
                 THEN DirectStates(k) ELSE AlternateStates(k))
      [] k = "Qloss_ev" -> {"refdir", "flowrt_r", "pin", "T4", "T1"}
      [] k = "Pel" -> {"Pa", "Pb"}
      [] k = "ws" -> {"Ts", "RHs"}
      [] k = "wr" -> {"Tr", "RHr"}
      [] OTHER -> {}

\* C11: no call, successful or failing, removes a key from the cache, and
\* after a successful get every requested key and every key it is computed
\* from is cached.
C11_Additive ==
    [][/\ DOMAIN quantities \subseteq DOMAIN quantities'
       /\ (last_get'.keys # <<>> /\ last_get'.err = "none") =>
             \A k \in Range(last_get'.keys) :
                 {k} \cup NeededInputs(k) \subseteq DOMAIN quantities']_vars

\* C11 witness: a get of Qcond succeeded and left its five inputs cached;
\* the next get failed and they are all still there.
C11_Witness ==
    /\ ncalls = 2
    /\ last_get.keys # <<>>
    /\ last_get.err # "none"
    /\ {"Qcond", "refdir", "flowrt_r", "pout", "T4", "T6"}
          \subseteq DOMAIN quantities

\* The value a DataTaker just made on the file builds for key k.
FreshBuild(k) ==
    get([q |-> EmptyMap, raw |-> file_data, log |-> EmptyMap, ret |-> <<>>,
         single |-> FALSE, err |-> "none"],
        name_converter, <<k>>, "fwd").q[k]

SameValue(a, b) ==
    /\ a.mag = b.mag
    /\ a.units = b.units
    /\ a.prop = b.prop
    /\ a.label = b.label

\* C12: after any sequence of get calls and of direct _build_quantities
\* calls, every cached key holds the value (magnitude, units, prop, label)
\* that a fresh build of the key from the file gives.
C12_CacheConsistent ==
    \A k \in DOMAIN quantities : SameValue(quantities[k], FreshBuild(k))

\* C12 witness: Qcond was cached by a get on a file with a marked sample,
\* then flowrt_r, one of its inputs, was rebuilt.
C12_Witness ==
    /\ ncalls = 2
    /\ Cached("Qcond")
    /\ Cached("flowrt_r")
    /\ quantities["flowrt_r"].obj = 2
    /\ \E i \in Samples : file_data["f"][i] = UnderRange

\* C13: no call changes a cell of a raw column: the raw dataset stays as it
\* was read from the file, the marked frequencies and the logged flow rates
\* included.
C13_RawReadOnly == raw_data = file_data

\* A requested key that the name conversion table does not have.
UnknownRequested ==
    \E k \in Range(last_get.keys) :
        k \notin DOMAIN name_converter \cup DependantKeys \cup HumRatioKeys

\* A requested key, or an input of one, that the table has and the file
\* does not.
MissingRequested ==
    \E k \in Range(last_get.keys) :
        \E c \in {k} \cup NeededInputs(k) :
            c \in DOMAIN name_converter /\ c \notin DOMAIN file_data

\* C14: a get of a key absent from the name conversion table fails with
\* UnknownQuantityError, a get of a mapped key whose column is absent from
\* the file fails with MissingColumnError: two distinct named outcomes.
C14_NamedErrors ==
    /\ (UnknownRequested /\ ~MissingRequested)
          => last_get.err = "UnknownQuantityError"
    /\ (MissingRequested /\ ~UnknownRequested)
          => last_get.err = "MissingColumnError"

(***************************************************************************)
(* Claims about the Quantity                                               *)
(***************************************************************************)
\* C15: q.to(other) leaves q as it was and returns a quantity with the prop
\* and label of q, in the units asked for; q.to() returns a quantity with
\* the units, magnitude, prop and label of q.
C15_ToKeepsTags ==
    [][q_res'.op = "to" =>
          /\ q_obj' = q_obj
          /\ q_res'.out._prop = q_obj._prop
          /\ q_res'.out._label = q_obj._label
          /\ q_res'.arg # None => q_res'.out.units = q_res'.arg
          /\ q_res'.arg = None =>
                /\ q_res'.out.units = q_obj.units
                /\ q_res'.out.magnitude = q_obj.magnitude]_vars

\* C15 witness: a power in W, its prop set to 'pressure' by set_prop, was
\* converted to kW: the result is in kW with the prop 'pressure'.
C15_Witness ==
    /\ q_res.op = "to"
    /\ q_res.arg = "kW"
    /\ q_obj.units = "W"
    /\ q_obj._prop = "pressure"
    /\ q_res.out.units = "kW"
    /\ q_res.out._prop = "pressure"

SameTags(a, b) == a._prop = b._prop /\ a._label = b._label

WithinRounding(y, z) ==
    LET emin == IF y.e < z.e THEN y.e ELSE z.e
        ym == y.m * 2^(y.e - emin)
        zm == z.m * 2^(z.e - emin)
        d == IF ym < zm THEN zm - ym ELSE ym - zm
    IN IF y.m = 0 \/ z.m = 0 THEN y.m = z.m
       ELSE d * 2^(MantissaBits - 3) <= ym

C17_IndexKeepsTags ==
    (q_res.op = "getitem" /\ q_res.err = "none") =>
        /\ q_res.out.units = q_obj.units
        /\ q_res.out._prop = q_obj._prop
        /\ q_res.out._label = q_obj._label

\* C17 witness: a slice of a frequency array taken after set_prop and
\* set_label (or set_name) had changed both tags.
C17_Witness ==
    /\ q_res.op = "getitem"
    /\ q_res.arg.slice
    /\ q_res.arg.lo < q_res.arg.hi
    /\ q_obj.units = "Hz"
    /\ q_obj._prop = "pressure"
    /\ q_obj._label = "$p$"
    /\ q_res.out._prop = "pressure"
    /\ q_res.out._label = "$p$"

\* C18: iter(q) on a scalar magnitude raises TypeError at the call, nothing
\* being yielded; on an array the k-th element yielded is the k-th element
\* of q with the units, prop and label of q.
C18_Iteration ==
    q_res.op = "iter" =>
        IF q_obj.magnitude.scalar
        THEN q_res.err = "TypeError" /\ q_res.out = <<>>
        ELSE /\ q_res.err = "none"
             /\ \A k \in 1..Len(q_res.out) :
                   /\ q_res.out[k].magnitude.v = <<q_obj.magnitude.v[k]>>
                   /\ q_res.out[k].units = q_obj.units
                   /\ SameTags(q_res.out[k], q_obj)

\* C18 witness: iter() of the scalar current has raised TypeError.
C18_Witness ==
    /\ q_res.op = "iter"
    /\ q_obj.magnitude.scalar
    /\ q_res.err = "TypeError"
    /\ q_res.out = <<>>

\* C19: the sum of two quantities of one prop and label carries that prop
\* and that label.
C19_ArithmeticKeepsTags ==
    q_res.op = "add" =>
        /\ q_res.out._prop = q_obj._prop
        /\ q_res.out._label = q_obj._label

\* The quantity f that the DataTaker builds from the raw column col.
StoreBuildF(col) ==
    CleanStep([q |-> EmptyMap, raw |-> [c \in {"f"} |-> col], log |-> EmptyMap,
               ret |-> <<>>, single |-> FALSE, err |-> "none"],
              NameConverter("W", "W"), {"f"}).q["f"]

\* C20: clean() maps the marker to 0 and any other entry v to v/2, keeping
\* length and order, units, prop and label, and gives the magnitude that
\* the DataTaker builds for f from the same column.
C20_SentinelCleaning ==
    (q_res.op = "clean" /\ q_res.err = "none") =>
        /\ Len(q_res.out.magnitude.v) = Len(q_res.arg)
        /\ \A i \in DOMAIN q_res.arg :
              IF q_res.arg[i] = UnderRange
              THEN q_res.out.magnitude.v[i] = Fl(0)
              ELSE FMul(q_res.out.magnitude.v[i], Fl(2)) = Fl(q_res.arg[i])
        /\ q_res.out.magnitude.v =
              [i \in DOMAIN q_res.arg |-> Fl(StoreBuildF(q_res.arg).mag[i])]
        /\ q_res.out.units = q_obj.units
        /\ SameTags(q_res.out, q_obj)

\* C20 witness: [10, marker, 6] was cleaned into [5, 0, 3].
C20_Witness ==
    /\ q_res.op = "clean"
    /\ q_res.err = "none"
    /\ q_res.arg = <<10, UnderRange, 6>>
    /\ q_res.out.magnitude.v = <<Fl(5), Fl(0), Fl(3)>>
    /\ q_res.out.units = "Hz"
    /\ q_res.out._prop = "frequency"

\* C21: clean() on a quantity whose magnitude is not an object array fails
\* and leaves the quantity as it was: a float array raises the Exception of
\* clean, a scalar the AttributeError of its missing dtype; so clean() on
\* the result of a clean() fails and halves nothing.
C21_CleanRejectsFloats ==
    [][(q_res'.op = "clean" /\ q_obj.magnitude.dtype # "O") =>
          /\ q_res'.err =
                IF q_obj.magnitude.scalar THEN "AttributeError" ELSE "Exception"
          /\ q_res'.out = <<>>
          /\ q_obj' = q_obj]_vars

\* C21 witness: clean() was called on the result [5, 0, 3] of a clean() and
\* raised, the quantity still being [5, 0, 3].
C21_Witness ==
    /\ q_res.op = "clean"
    /\ q_res.err = "Exception"
    /\ q_obj.units = "Hz"
    /\ q_obj.magnitude.dtype = "float"
    /\ q_obj.magnitude.v = <<Fl(5), Fl(0), Fl(3)>>
    /\ q_res.arg = q_obj.magnitude.v

(***************************************************************************)
(* Claims about the moving mean                                            *)
(***************************************************************************)
\* The window size movmean uses, and its edge length.
OddWindow(n) == IF n % 2 = 0 THEN n + 1 ELSE n
HalfWidth(n) == (OddWindow(n) - 1) \div 2

IsConstant(a) == \A i \in DOMAIN a : a[i] = a[1]

\* C22: movmean of an array of at least 3 elements returns, for every
\* window size, an array of the same length, and for a constant array the
\* array itself.
C22_LengthAndConstant ==
    (q_res.op = "movmean" /\ ~q_obj.magnitude.scalar
       /\ Len(q_obj.magnitude.v) >= 3) =>
        /\ q_res.err = "none"
        /\ Len(q_res.out.magnitude.v) = Len(q_obj.magnitude.v)
        /\ IsConstant(q_obj.magnitude.v) =>
              \A i \in DOMAIN q_obj.magnitude.v :
                 q_res.out.magnitude.v[i].num =
                    q_obj.magnitude.v[i] * q_res.out.magnitude.v[i].den

\* a extended by reflection about its first and last elements, which are
\* not repeated; k is a Python index from -(N-1) to 2(N-1).
Reflected(a, k) ==
    IF k < 0 THEN a[-k + 1]
    ELSE IF k > Len(a) - 1 THEN a[2 * (Len(a) - 1) - k + 1]
    ELSE a[k + 1]

RECURSIVE WindowSum(_, _, _)
WindowSum(a, lo, hi) ==
    IF lo > hi THEN 0 ELSE Reflected(a, lo) + WindowSum(a, lo + 1, hi)

\* C23: for an array a of N >= 3 elements and a window n of odd size n' and
\* half-width l, 1 <= l <= N - 2, every output[i] is the sum of the
\* reflected a over i-l..i+l divided by n', and an even n gives what n + 1
\* gives.
C23_ReflectedMean ==
    (q_res.op = "movmean" /\ ~q_obj.magnitude.scalar
       /\ Len(q_obj.magnitude.v) >= 3
       /\ 1 <= HalfWidth(q_res.arg)
       /\ HalfWidth(q_res.arg) <= Len(q_obj.magnitude.v) - 2) =>
        /\ q_res.err = "none"
        /\ DOMAIN q_res.out.magnitude.v = DOMAIN q_obj.magnitude.v
        /\ \A i \in DOMAIN q_obj.magnitude.v :
              q_res.out.magnitude.v[i] =
                 [num |-> WindowSum(q_obj.magnitude.v,
                                    i - 1 - HalfWidth(q_res.arg),
                                    i - 1 + HalfWidth(q_res.arg)),
                  den |-> OddWindow(q_res.arg)]
        /\ q_res.out = movmean(q_obj, OddWindow(q_res.arg)).out

\* C23 witness: movmean([2, 15, 15, 2], 4) gave [62, 49, 49, 62] / 5.
C23_Witness ==
    /\ q_res.op = "movmean"
    /\ q_res.arg = 4
    /\ q_obj.magnitude.v = <<2, 15, 15, 2>>
    /\ q_res.err = "none"
    /\ q_res.out.magnitude.v =
          <<[num |-> 62, den |-> 5], [num |-> 49, den |-> 5],
            [num |-> 49, den |-> 5], [num |-> 62, den |-> 5]>>

\* C24: movmean of fewer than 3 elements, or of a scalar, raises ValueError
\* and returns nothing, for every window size, as the method and as the
\* function of movmean.py.
C24_TooShort ==
    (q_res.op \in {"movmean", "movmean_array"}
       /\ (q_obj.magnitude.scalar \/ Len(q_obj.magnitude.v) < 3)) =>
        /\ q_res.err = "ValueError"
        /\ q_res.out = <<>>

(***************************************************************************)
(* Claims about the checks                                                 *)
(***************************************************************************)
\* The samples with wr below ws.
BelowSamples ==
    {i \in DOMAIN q_obj.wr.magnitude.v :
        q_obj.wr.magnitude.v[i] < q_obj.ws.magnitude.v[i]}

\* C25: humidity_check reports a warning exactly when the fraction of the
\* samples with wr < ws is above 0.02, and the warning quotes that fraction
\* as a percentage rounded to one decimal.
C25_HumidityWarning ==
    q_res.op = "humidity_check" =>
        LET k == Cardinality(BelowSamples)
            N == Len(q_obj.wr.magnitude.v)
        IN /\ q_res.err = "none"
           /\ (q_res.out # <<>>) <=> (50 * k > N)
           /\ q_res.out # <<>> =>
                 /\ Len(q_res.out) = 1
                 /\ LET t == 10 * q_res.out[1].percent[1]
                                + q_res.out[1].percent[2]
                    IN /\ q_res.out[1].percent[2] \in 0..9
                       /\ 2 * 1000 * k - 2 * t * N <= N
                       /\ 2 * t * N - 2 * 1000 * k <= N

\* C25 witness: wr < ws in 5 samples of 100, and the warning quotes 5.0%.
C25_Witness ==
    /\ q_res.op = "humidity_check"
    /\ Len(q_obj.wr.magnitude.v) = 100
    /\ Cardinality(BelowSamples) = 5
    /\ Len(q_res.out) = 1
    /\ q_res.out[1].percent = <<5, 0>>

\* The residual f - movmean(f, 15) over the samples but the first 7 and
\* the last 7.
InteriorResidual ==
    Residual(q_obj.f.magnitude.v,
             movmean(q_obj.f, 15).out.magnitude.v,
             [lo |-> 8, hi |-> Len(q_obj.f.magnitude.v) - 7])

\* C26: cycling_check reports a warning exactly when the variance of
\* f - movmean(f, 15), over the samples but the first 7 and the last 7, is
\* above 100 Hz^2.
C26_CyclingWarning ==
    q_res.op = "cycling_check" =>
        /\ q_res.err = "none"
        /\ (q_res.out # <<>>) <=> VarianceExceeds(InteriorResidual, 100)

(***************************************************************************)
(* Claims about the store (continued)                                      *)
(***************************************************************************)
\* C27: a call _build_quantities(*keys, update=False) that returns leaves
\* every cached entry as it was and leaves every requested key cached.
C27_BuildNoUpdate ==
    [][\A keys \in BuildRequests, ord \in Orders :
          (Build(keys, FALSE, ord) /\ last_get'.err = "none") =>
             /\ \A k \in DOMAIN quantities :
                   k \in DOMAIN quantities' /\ quantities'[k] = quantities[k]
             /\ keys \subseteq DOMAIN quantities']_vars

\* C29: a get of a key given to _heat (Qcond, Qev, Pcomp, Qloss_ev), all of
\* whose columns are in the file, finds the states and the expected phases
\* of the key whatever the flow direction is: it raises no KeyError.
C29_StatesForEveryKey ==
    (last_get.keys # <<>>
       /\ Range(last_get.keys) \cap HeatKeys # {}
       /\ ~UnknownRequested /\ ~MissingRequested) =>
        last_get.err # "KeyError"

\* C30 as claimed: a get that fails leaves the cache exactly as it was.
C30_FailedGetAtomic ==
    [][(last_get'.keys # <<>> /\ last_get'.err # "none") =>
          quantities' = quantities]_vars

\* C30: a get that fails leaves every entry cached before the call as it
\* was; the entries it adds are requested keys and inputs of requested
\* keys, built before the failure.
C30_FailedGetKeepsEntries ==
    [][(last_get'.keys # <<>> /\ last_get'.err # "none") =>
          /\ \A k \in DOMAIN quantities :
                k \in DOMAIN quantities' /\ quantities'[k] = quantities[k]
          /\ DOMAIN quantities' \ DOMAIN quantities \subseteq
                UNION {{k} \cup NeededInputs(k) :
                          k \in Range(last_get'.keys)}]_vars

\* C30 witness: the first get, of T2 and the unknown Tx, failed and left T2
\* cached.
C30_Witness ==
    /\ ncalls = 1
    /\ last_get.keys = <<"T2", "Tx">>
    /\ last_get.err = "KeyError"
    /\ "T2" \in DOMAIN quantities

(***************************************************************************)
(* Claims about explore                                                    *)
(***************************************************************************)
\* C28: explore with return_data=True and more than one argument returns
\* the quantities in the order of args, the derived ones at the positions
\* of their keys.
C28_ExploreOrder ==
    (q_res.op = "explore" /\ Len(q_res.arg) > 1) =>
        /\ q_res.err = "none"
        /\ Len(q_res.out) = Len(q_res.arg)
        /\ \A i \in 1..Len(q_res.arg) : q_res.out[i].key = q_res.arg[i]

====
